---- MODULE Spec2Model ----
(***************************************************************************)
(* Model of cosche::Toposort (src/toposort.hpp): a store of nodes (_heap), *)
(* each node with a value _t and two edge sets _ins / _outs, and four sets *)
(* of node pointers _pendings, _blockeds, _waitings, _planneds.            *)
(*                                                                         *)
(* A node is identified by its address: the partition sets compare node    *)
(* pointers (std::equal_to<Node*>), the store compares node values         *)
(* (NodePtrEquals).  The two differ as soon as a value is registered       *)
(* twice, so the model keeps addresses and values apart.                   *)
(***************************************************************************)
EXTENDS Integers, Sequences, FiniteSets

\* Number of distinct task values a run may use.
NumValues == 2

\* Number of addresses beyond one per value: room for nodes that push/plan
\* allocate for an already registered value.
MaxDangling == 1

Values == 1..NumValues

Addr == 1..(NumValues + MaxDangling)

\* Number of calls made on the Toposort in one run.
MaxCalls == 5

\* Number of calls in a run that only builds a graph and asks for its cycle.
MaxBuildCalls == 6

\* Number of calls in a run of a scheduler: tasks are registered and linked,
\* then taken from top() and completed.
MaxSchedCalls == 7

\* _t of an address that holds no node of the store.
NoValue == 0

\* What a read through an invalid pointer or iterator yields.
Garbage == -1

VARIABLES _heap, _t, _ins, _outs,
          _pendings, _blockeds, _waitings, _planneds,
          _cycle, op, ret, ub, prev, calls, budget, hist

\* the data members of Toposort and of its nodes
state == <<_heap, _t, _ins, _outs, _pendings, _blockeds, _waitings, _planneds>>

vars == <<_heap, _t, _ins, _outs, _pendings, _blockeds, _waitings, _planneds,
          _cycle, op, ret, ub, prev, calls, budget, hist>>

\* The data members as one record: prev holds them as they were when the
\* last call was made.
Snapshot ==
    [heap |-> _heap, t |-> _t, ins |-> _ins, outs |-> _outs,
     pendings |-> _pendings, blockeds |-> _blockeds,
     waitings |-> _waitings, planneds |-> _planneds]

----------------------------------------------------------------------------
\* The container (RobinHoodHashtable) as an associative set.

\* _heap.find(make_unique<Node>(t)) != _heap.end(): NodePtrEquals compares _t
Found(t) == \E n \in _heap : _t[n] = t

\* the node _heap.find(...) points at
NodeOf(t) == CHOOSE n \in _heap : _t[n] = t

\* Addresses held by a partition set although the store freed the node.
Dangling == (_pendings \cup _blockeds \cup _waitings \cup _planneds) \ _heap

\* Addresses std::make_unique may return: any address that holds no live
\* node.  Addresses nothing refers to are interchangeable, so the least of
\* them stands for all; an address a partition set still refers to may be
\* handed out again.
Unused == Addr \ (_heap \cup Dangling)

Alloc ==
    Dangling \cup {a \in Unused : \A b \in Unused : a <= b}

\* The call just made.
Call(name, a, b) == <<name, a, b>>

\* The record of a scheduler run, kept only in the runs that ask for it (on):
\* the links made (attach calls that found both nodes), how often each task
\* was completed (erase calls that found the node), and whether the run has
\* started taking tasks from top() (pc).
NoHistory ==
    [on |-> FALSE, pc |-> "build", linked |-> {},
     completed |-> [v \in Values |-> 0]]

Track(name, a, b) ==
    IF ~hist.on THEN hist
    ELSE IF name = "attach" /\ Found(a) /\ Found(b)
         THEN [hist EXCEPT !.linked = @ \cup {<<a, b>>}]
    ELSE IF name = "erase" /\ Found(a)
         THEN [hist EXCEPT !.completed[a] = @ + 1]
    ELSE IF name = "top"
         THEN [hist EXCEPT !.pc = "loop"]
    ELSE hist

\* Bookkeeping of a call: which call it is and the members it started from.
Called(name, a, b) ==
    /\ calls < budget
    /\ calls' = calls + 1
    /\ UNCHANGED budget
    /\ hist' = Track(name, a, b)
    /\ op' = Call(name, a, b)
    /\ prev' = Snapshot

\* A mutating call returns nothing and leaves _cycle alone.
Mutator(name, a, b) ==
    /\ Called(name, a, b)
    /\ ub' = FALSE
    /\ ret' = NoValue
    /\ UNCHANGED _cycle

----------------------------------------------------------------------------
\* The members after construction: Toposort() { clear(); }
Constructed ==
    /\ _heap = {}
    /\ _t = [a \in Addr |-> NoValue]
    /\ _ins = [a \in Addr |-> {}]
    /\ _outs = [a \in Addr |-> {}]
    /\ _pendings = {}
    /\ _blockeds = {}
    /\ _waitings = {}
    /\ _planneds = {}
    /\ _cycle = <<>>
    /\ op = Call("Toposort", 0, 0)
    /\ ret = NoValue
    /\ ub = FALSE
    /\ prev = Snapshot
    /\ calls = 0

Init ==
    /\ Constructed
    /\ budget = MaxCalls
    /\ hist = NoHistory

clear ==
    /\ _heap' = {}
    /\ _t' = [a \in Addr |-> NoValue]
    /\ _ins' = [a \in Addr |-> {}]
    /\ _outs' = [a \in Addr |-> {}]
    /\ _pendings' = {}
    /\ _blockeds' = {}
    /\ _waitings' = {}
    /\ _planneds' = {}
    /\ Mutator("clear", 0, 0)

\* _heap.insert(std::move(node)): the node at address p, holding value t,
\* enters the store unless the store holds an equal one; a node that does
\* not enter is destroyed with its unique_ptr.
HeapInsert(p, t) ==
    IF Found(t)
    THEN UNCHANGED <<_heap, _t>>
    ELSE /\ _heap' = _heap \cup {p}
         /\ _t' = [_t EXCEPT ![p] = t]

push(t) ==
    \E p \in Alloc :
        /\ _pendings' = _pendings \cup {p}
        /\ HeapInsert(p, t)
        /\ UNCHANGED <<_ins, _outs, _blockeds, _waitings, _planneds>>
        /\ Mutator("push", t, 0)

plan(t) ==
    \E p \in Alloc :
        /\ _planneds' = _planneds \cup {p}
        /\ HeapInsert(p, t)
        /\ UNCHANGED <<_ins, _outs, _pendings, _blockeds, _waitings>>
        /\ Mutator("plan", t, 0)

\* use() classifying the node by its _ins, the way wake() does
use_ByEdges(t) ==
    /\ IF Found(t) /\ NodeOf(t) \in _planneds
       THEN /\ _planneds' = _planneds \ {NodeOf(t)}
            /\ IF _ins[NodeOf(t)] = {}
               THEN /\ _pendings' = _pendings \cup {NodeOf(t)}
                    /\ UNCHANGED _blockeds
               ELSE /\ _blockeds' = _blockeds \cup {NodeOf(t)}
                    /\ UNCHANGED _pendings
       ELSE UNCHANGED <<_planneds, _pendings, _blockeds>>
    /\ UNCHANGED <<_heap, _t, _ins, _outs, _waitings>>
    /\ Mutator("use", t, 0)

use(t) ==
    /\ IF Found(t) /\ NodeOf(t) \in _planneds
       THEN /\ _planneds' = _planneds \ {NodeOf(t)}
            /\ _pendings' = _pendings \cup {NodeOf(t)}
       ELSE UNCHANGED <<_planneds, _pendings>>
    /\ UNCHANGED <<_heap, _t, _ins, _outs, _blockeds, _waitings>>
    /\ Mutator("use", t, 0)

\* detach() forgetting _blockeds.erase(lhsNode)
detach_StaysBlocked(lhs, rhs) ==
    /\ IF Found(lhs) /\ Found(rhs)
       THEN LET lhsNode == NodeOf(lhs)
                rhsNode == NodeOf(rhs)
                ins1 == [_ins EXCEPT ![lhsNode] = @ \ {rhsNode}]
            IN  /\ _ins' = ins1
                /\ _outs' = [_outs EXCEPT ![rhsNode] = @ \ {lhsNode}]
                /\ IF ins1[lhsNode] = {} /\ lhsNode \notin _waitings
                   THEN /\ _pendings' = _pendings \cup {lhsNode}
                        /\ UNCHANGED _blockeds
                   ELSE UNCHANGED <<_blockeds, _pendings>>
       ELSE UNCHANGED <<_ins, _outs, _blockeds, _pendings>>
    /\ UNCHANGED <<_heap, _t, _waitings, _planneds>>
    /\ Mutator("detach", lhs, rhs)

detach(lhs, rhs) ==
    /\ IF Found(lhs) /\ Found(rhs)
       THEN LET lhsNode == NodeOf(lhs)
                rhsNode == NodeOf(rhs)
                ins1 == [_ins EXCEPT ![lhsNode] = @ \ {rhsNode}]
            IN  /\ _ins' = ins1
                /\ _outs' = [_outs EXCEPT ![rhsNode] = @ \ {lhsNode}]
                /\ IF ins1[lhsNode] = {} /\ lhsNode \notin _waitings
                   THEN /\ _blockeds' = _blockeds \ {lhsNode}
                        /\ _pendings' = _pendings \cup {lhsNode}
                   ELSE UNCHANGED <<_blockeds, _pendings>>
       ELSE UNCHANGED <<_ins, _outs, _blockeds, _pendings>>
    /\ UNCHANGED <<_heap, _t, _waitings, _planneds>>
    /\ Mutator("detach", lhs, rhs)

\* attach() moving lhs to Blocked before it knows that rhs has a node
attach_EarlyBlock(lhs, rhs) ==
    /\ IF Found(lhs) /\ Found(rhs)
       THEN LET lhsNode == NodeOf(lhs)
                rhsNode == NodeOf(rhs)
            IN  /\ IF _ins[lhsNode] = {} /\ lhsNode \notin _waitings
                   THEN /\ _blockeds' = _blockeds \cup {lhsNode}
                        /\ _pendings' = _pendings \ {lhsNode}
                   ELSE UNCHANGED <<_blockeds, _pendings>>
                /\ _ins' = [_ins EXCEPT ![lhsNode] = @ \cup {rhsNode}]
                /\ _outs' = [_outs EXCEPT ![rhsNode] = @ \cup {lhsNode}]
       ELSE IF Found(lhs)
            THEN LET lhsNode == NodeOf(lhs)
                 IN  /\ IF _ins[lhsNode] = {} /\ lhsNode \notin _waitings
                        THEN /\ _blockeds' = _blockeds \cup {lhsNode}
                             /\ _pendings' = _pendings \ {lhsNode}
                        ELSE UNCHANGED <<_blockeds, _pendings>>
                     /\ UNCHANGED <<_ins, _outs>>
            ELSE UNCHANGED <<_ins, _outs, _blockeds, _pendings>>
    /\ UNCHANGED <<_heap, _t, _waitings, _planneds>>
    /\ Mutator("attach", lhs, rhs)

attach(lhs, rhs) ==
    /\ IF Found(lhs) /\ Found(rhs)
       THEN LET lhsNode == NodeOf(lhs)
                rhsNode == NodeOf(rhs)
            IN  /\ IF _ins[lhsNode] = {} /\ lhsNode \notin _waitings
                   THEN /\ _blockeds' = _blockeds \cup {lhsNode}
                        /\ _pendings' = _pendings \ {lhsNode}
                   ELSE UNCHANGED <<_blockeds, _pendings>>
                /\ _ins' = [_ins EXCEPT ![lhsNode] = @ \cup {rhsNode}]
                /\ _outs' = [_outs EXCEPT ![rhsNode] = @ \cup {lhsNode}]
       ELSE UNCHANGED <<_ins, _outs, _blockeds, _pendings>>
    /\ UNCHANGED <<_heap, _t, _waitings, _planneds>>
    /\ Mutator("attach", lhs, rhs)

\* erase() with the loop forgetting _pendings.insert(out)
erase_NoUnblock(t) ==
    /\ IF Found(t)
       THEN LET tNode == NodeOf(t)
                ins1 == [n \in Addr |->
                           IF n \in _outs[tNode] THEN _ins[n] \ {tNode}
                                                 ELSE _ins[n]]
                freed == {out \in _outs[tNode] : ins1[out] = {}}
            IN  /\ _ins' = ins1
                /\ _pendings' = _pendings \ {tNode}
                /\ _blockeds' = (_blockeds \ freed) \ {tNode}
                /\ _planneds' = _planneds \cup {tNode}
       ELSE UNCHANGED <<_ins, _pendings, _blockeds, _planneds>>
    /\ UNCHANGED <<_heap, _t, _outs, _waitings>>
    /\ Mutator("erase", t, 0)

erase(t) ==
    /\ IF Found(t)
       THEN LET tNode == NodeOf(t)
                \* the loop over tNode->_outs: each out loses tNode from _ins
                ins1 == [n \in Addr |->
                           IF n \in _outs[tNode] THEN _ins[n] \ {tNode}
                                                 ELSE _ins[n]]
                \* the outs whose _ins the loop found empty
                freed == {out \in _outs[tNode] : ins1[out] = {}}
            IN  /\ _ins' = ins1
                /\ _pendings' = (_pendings \cup freed) \ {tNode}
                /\ _blockeds' = (_blockeds \ freed) \ {tNode}
                /\ _planneds' = _planneds \cup {tNode}
       ELSE UNCHANGED <<_ins, _pendings, _blockeds, _planneds>>
    /\ UNCHANGED <<_heap, _t, _outs, _waitings>>
    /\ Mutator("erase", t, 0)

\* release() ending like erase(): the node is recycled into Planned
release_Recycles(t) ==
    /\ IF Found(t)
       THEN LET tNode == NodeOf(t)
                ins1 == [n \in Addr |->
                           IF n \in _outs[tNode] THEN _ins[n] \ {tNode}
                                                 ELSE _ins[n]]
                freed == {out \in _outs[tNode] :
                             ins1[out] = {} /\ out \notin _waitings}
            IN  /\ _ins' = ins1
                /\ _blockeds' = (_blockeds \ freed) \ {tNode}
                /\ _pendings' = (_pendings \cup freed) \ {tNode}
                /\ _planneds' = _planneds \cup {tNode}
                /\ _outs' = [_outs EXCEPT ![tNode] = {}]
       ELSE UNCHANGED <<_ins, _outs, _pendings, _blockeds, _planneds>>
    /\ UNCHANGED <<_heap, _t, _waitings>>
    /\ Mutator("release", t, 0)

release(t) ==
    /\ IF Found(t)
       THEN LET tNode == NodeOf(t)
                ins1 == [n \in Addr |->
                           IF n \in _outs[tNode] THEN _ins[n] \ {tNode}
                                                 ELSE _ins[n]]
                freed == {out \in _outs[tNode] :
                             ins1[out] = {} /\ out \notin _waitings}
            IN  /\ _ins' = ins1
                /\ _blockeds' = _blockeds \ freed
                /\ _pendings' = _pendings \cup freed
                /\ _outs' = [_outs EXCEPT ![tNode] = {}]
       ELSE UNCHANGED <<_ins, _outs, _pendings, _blockeds>>
    /\ UNCHANGED <<_heap, _t, _waitings, _planneds>>
    /\ Mutator("release", t, 0)

\* halt() erasing from the two sets before, and instead of, inserting
\* into _waitings
halt_NoInsert(t) ==
    /\ IF Found(t)
       THEN LET tNode == NodeOf(t)
            IN  /\ _blockeds' = _blockeds \ {tNode}
                /\ _pendings' = _pendings \ {tNode}
                /\ UNCHANGED _waitings
       ELSE UNCHANGED <<_waitings, _blockeds, _pendings>>
    /\ UNCHANGED <<_heap, _t, _ins, _outs, _planneds>>
    /\ Mutator("halt", t, 0)

halt(t) ==
    /\ IF Found(t)
       THEN LET tNode == NodeOf(t)
            IN  /\ _waitings' = _waitings \cup {tNode}
                /\ _blockeds' = _blockeds \ {tNode}
                /\ _pendings' = _pendings \ {tNode}
       ELSE UNCHANGED <<_waitings, _blockeds, _pendings>>
    /\ UNCHANGED <<_heap, _t, _ins, _outs, _planneds>>
    /\ Mutator("halt", t, 0)

\* wake() with the branches of its test exchanged
wake_Swapped(t) ==
    /\ IF Found(t)
       THEN LET tNode == NodeOf(t)
            IN  /\ _waitings' = _waitings \ {tNode}
                /\ IF _ins[tNode] # {}
                   THEN /\ _pendings' = _pendings \cup {tNode}
                        /\ UNCHANGED _blockeds
                   ELSE /\ _blockeds' = _blockeds \cup {tNode}
                        /\ UNCHANGED _pendings
       ELSE UNCHANGED <<_waitings, _blockeds, _pendings>>
    /\ UNCHANGED <<_heap, _t, _ins, _outs, _planneds>>
    /\ Mutator("wake", t, 0)

wake(t) ==
    /\ IF Found(t)
       THEN LET tNode == NodeOf(t)
            IN  /\ _waitings' = _waitings \ {tNode}
                /\ IF _ins[tNode] = {}
                   THEN /\ _pendings' = _pendings \cup {tNode}
                        /\ UNCHANGED _blockeds
                   ELSE /\ _blockeds' = _blockeds \cup {tNode}
                        /\ UNCHANGED _pendings
       ELSE UNCHANGED <<_waitings, _blockeds, _pendings>>
    /\ UNCHANGED <<_heap, _t, _ins, _outs, _planneds>>
    /\ Mutator("wake", t, 0)

----------------------------------------------------------------------------
\* Queries.

empty == _pendings = {}

waiting == _waitings # {}

cyclic == empty /\ ~waiting /\ _blockeds # {}

\* n->_t as the build reads it: the value of a live node, anything otherwise
ValueAt(n) == IF n \in _heap THEN _t[n] ELSE Garbage

\* What reading n->_t can yield: the value of a live node; a freed node or
\* the end iterator is an undefined read.
ReadT(n) == IF n \in _heap THEN {_t[n]} ELSE Values \cup {Garbage}

\* top() / ctop(): (*(_pendings.begin()))->_t, begin() being any element of
\* the set, or end() when the set is empty.
top ==
    /\ IF _pendings = {}
       THEN /\ ret' \in Values \cup {Garbage}
            /\ ub' = TRUE
       ELSE \E n \in _pendings :
                /\ ret' \in ReadT(n)
                /\ ub' = (n \notin _heap)
    /\ UNCHANGED <<state, _cycle>>
    /\ Called("top", 0, 0)

\* *(n->_ins.begin()) for every node of the store: an element of _ins when
\* there is one (the iteration order of the set is not specified, but it is
\* the same for both loops of cycle()); dereferencing begin() of an empty
\* set is an undefined read, which may yield any address.
Firsts ==
    {f \in [_heap -> Addr] :
        \A n \in _heap : _ins[n] # {} => f[n] \in _ins[n]}

\* node = *(node->_ins.begin()); an address that holds no node yields
\* nothing that refers to a node either.
Step(f, n) == IF n \in _heap THEN f[n] ELSE n

\* first loop of cycle(): follow first-of-_ins until a visited node comes up
RECURSIVE FindVisited(_, _, _)
FindVisited(f, node_1, visiteds) ==
    IF node_1 \in visiteds
    THEN node_1
    ELSE FindVisited(f, Step(f, node_1), visiteds \cup {node_1})

\* the nodes the first loop dereferences
RECURSIVE Visited(_, _, _)
Visited(f, node_1, visiteds) ==
    IF node_1 \in visiteds
    THEN visiteds
    ELSE Visited(f, Step(f, node_1), visiteds \cup {node_1})

\* second loop of cycle(): do { push_back; advance } while (node_2 != node_1)
RECURSIVE Collect(_, _, _, _)
Collect(f, node_2, node_1, acc) ==
    LET acc1 == Append(acc, ValueAt(node_2))
    IN  IF Step(f, node_2) = node_1
        THEN acc1
        ELSE Collect(f, Step(f, node_2), node_1, acc1)

\* second loop of cycle() written while (node_2 != node_1) { ... }
RECURSIVE CollectWhile(_, _, _, _)
CollectWhile(f, node_2, node_1, acc) ==
    IF node_2 = node_1
    THEN acc
    ELSE CollectWhile(f, Step(f, node_2), node_1,
                      Append(acc, ValueAt(node_2)))

\* cycle() with its second loop testing before the first push_back
cycle_WhileLoop ==
    /\ IF cyclic
       THEN \E start \in _blockeds : \E f \in Firsts :
                /\ _cycle' = CollectWhile(f, FindVisited(f, start, {}),
                                             FindVisited(f, start, {}), <<>>)
                /\ ub' = \E n \in Visited(f, start, {}) : _ins[n] = {}
       ELSE /\ _cycle' = <<>>
            /\ ub' = FALSE
    /\ ret' = NoValue
    /\ UNCHANGED state
    /\ Called("cycle", 0, 0)

cycle ==
    /\ IF cyclic
       THEN \E start \in _blockeds : \E f \in Firsts :
                /\ _cycle' = Collect(f, FindVisited(f, start, {}),
                                        FindVisited(f, start, {}), <<>>)
                /\ ub' = \E n \in Visited(f, start, {}) : _ins[n] = {}
       ELSE /\ _cycle' = <<>>
            /\ ub' = FALSE
    /\ ret' = NoValue
    /\ UNCHANGED state
    /\ Called("cycle", 0, 0)

\* The values push and plan are called with: any value that has a node, and
\* one value that has none.  Task values are opaque, so the least value
\* without a node stands for every value without one.
Registrable ==
    {t \in Values : Found(t) \/ \A u \in Values : ~Found(u) => t <= u}

Next ==
    \/ clear
    \/ \E t \in Registrable : push(t)
    \/ \E t \in Registrable : plan(t)
    \/ \E t \in Values : use(t)
    \/ \E lhs, rhs \in Values : detach(lhs, rhs)
    \/ \E lhs, rhs \in Values : attach(lhs, rhs)
    \/ \E t \in Values : erase(t)
    \/ \E t \in Values : release(t)
    \/ \E t \in Values : halt(t)
    \/ \E t \in Values : wake(t)
    \/ top
    \/ cycle

Spec == Init /\ [][Next]_vars

\* Runs that build a graph with push and attach only, and call cycle().
InitBuild ==
    /\ Constructed
    /\ budget = MaxBuildCalls
    /\ hist = NoHistory

NextBuild ==
    \/ \E t \in Registrable : push(t)
    \/ \E lhs, rhs \in Values : attach(lhs, rhs)
    \/ cycle

SpecBuild == InitBuild /\ [][NextBuild]_vars

\* Runs of a scheduler that uses push, attach and erase only: it asks top()
\* when empty() is false, completes only the task top() just returned, and
\* links only tasks that have not been completed.
InitSched ==
    /\ Constructed
    /\ budget = MaxSchedCalls
    /\ hist = [NoHistory EXCEPT !.on = TRUE]

NextSched ==
    \/ \E t \in Registrable : push(t)
    \/ \E lhs, rhs \in Values :
          /\ hist.completed[lhs] = 0 /\ hist.completed[rhs] = 0
          /\ attach(lhs, rhs)
    \/ ~empty /\ top
    \/ \E t \in Values \cup {Garbage} :
          /\ op[1] = "top" /\ ret = t
          /\ erase(t)

SpecSched == InitSched /\ [][NextSched]_vars

\* Runs that register and link tasks and then run the scheduler loop
\*     while (!empty()) erase(top());
\* the loop starts with the first top() and nothing else is called after.
NextLoop ==
    \/ \E t \in Registrable : hist.pc = "build" /\ push(t)
    \/ \E lhs, rhs \in Values : hist.pc = "build" /\ attach(lhs, rhs)
    \/ ~empty /\ op[1] # "top" /\ top
    \/ \E t \in Values \cup {Garbage} :
          /\ op[1] = "top" /\ ret = t
          /\ erase(t)

SpecLoop == InitSched /\ [][NextLoop]_vars

\* Runs of any calls in which push and plan are only called with a value
\* that has no node: no value is registered twice.
NextNoDup ==
    \/ clear
    \/ \E t \in Registrable : ~Found(t) /\ push(t)
    \/ \E t \in Registrable : ~Found(t) /\ plan(t)
    \/ \E t \in Values : use(t)
    \/ \E lhs, rhs \in Values : detach(lhs, rhs)
    \/ \E lhs, rhs \in Values : attach(lhs, rhs)
    \/ \E t \in Values : erase(t)
    \/ \E t \in Values : release(t)
    \/ \E t \in Values : halt(t)
    \/ \E t \in Values : wake(t)
    \/ top
    \/ cycle

SpecNoDup == Init /\ [][NextNoDup]_vars

----------------------------------------------------------------------------
\* How many of the four partition sets hold node n.
Memberships(n) ==
    (IF n \in _pendings THEN 1 ELSE 0) + (IF n \in _blockeds THEN 1 ELSE 0)
    + (IF n \in _waitings THEN 1 ELSE 0) + (IF n \in _planneds THEN 1 ELSE 0)

\* The nodes reached from the set S by following _ins edges, S included.
RECURSIVE ReachIns(_)
ReachIns(S) ==
    LET T == S \cup UNION {_ins[n] : n \in S}
    IN  IF T = S THEN S ELSE ReachIns(T)

\* The members as they were when the last call was made.
PrevFound(t) == \E n \in prev.heap : prev.t[n] = t

PrevNodeOf(t) == CHOOSE n \in prev.heap : prev.t[n] = t

\* C1. Partition consistency: every stored node that is in neither Waiting
\* nor Planned is in Pending exactly when its _ins is empty, and in Blocked
\* exactly when its _ins is non-empty.
C1_PartitionConsistency ==
    \A n \in _heap :
        n \notin _waitings \cup _planneds =>
            /\ (n \in _pendings <=> _ins[n] = {})
            /\ (n \in _blockeds <=> _ins[n] # {})

\* C2. Partition exclusivity: every stored node is a member of exactly one
\* of Pending, Blocked, Waiting, Planned.
C2_PartitionExclusive ==
    \A n \in _heap : Memberships(n) = 1

\* C3. Edge symmetry: for all stored nodes a and b, b is in a's _ins exactly
\* when a is in b's _outs.
C3_EdgeSymmetry ==
    \A a, b \in _heap : (b \in _ins[a] <=> a \in _outs[b])

\* C4. Planned nodes are inert: across attach, detach, erase, release, halt
\* and wake calls a node that is in Planned, and in neither Pending nor
\* Blocked, stays out of Pending and Blocked, and top() does not return it.
C4_PlannedInert ==
    [][\A n \in _heap :
          (n \in _planneds /\ n \notin _pendings \cup _blockeds) =>
              /\ op'[1] \in {"attach", "detach", "erase", "release",
                             "halt", "wake"}
                    => n \notin _pendings' \cup _blockeds'
              /\ (op'[1] = "top" /\ ~ub') => ret' # _t[n]]_vars

\* C5. Suspension masks readiness: a suspended node (in Waiting, in none of
\* the other sets) stays in Waiting and out of Pending and Blocked across
\* every call other than wake of that node (and clear, which discards it);
\* in particular across erase of its last dependency.
C5_SuspensionMasks ==
    [][\A n \in _heap :
          (/\ n \in _waitings
           /\ n \notin _pendings \cup _blockeds \cup _planneds
           /\ op' # Call("wake", _t[n], 0)
           /\ op' # Call("clear", 0, 0))
          => (n \in _waitings' /\ n \notin _pendings' \cup _blockeds')]_vars

\* C6. Completion unblocks dependents: when erase(b) is called while a
\* stored node A, in Pending or Blocked, has _ins exactly {B} (B the node of
\* b; A and B are two nodes, as the claim places A in Pending and B outside
\* it), then after the call A is in Pending, A's _ins is empty, and B is in
\* Planned and in neither Pending nor Blocked.
C6_Case(A, B) ==
    /\ op[1] = "erase"
    /\ PrevFound(op[2])
    /\ B = PrevNodeOf(op[2])
    /\ A \in prev.heap
    /\ A # B
    /\ A \in prev.pendings \cup prev.blockeds
    /\ prev.ins[A] = {B}

C6_CompletionUnblocks ==
    \A A, B \in Addr :
        C6_Case(A, B) =>
            /\ A \in _pendings
            /\ _ins[A] = {}
            /\ B \in _planneds
            /\ B \notin _pendings \cup _blockeds

C6_Witness ==
    \E A, B \in Addr :
        /\ C6_Case(A, B)
        /\ A \in prev.blockeds
        /\ B \in prev.pendings
        /\ A \in _pendings

\* The stored nodes form one dependency cycle and nothing else: every node
\* is in Blocked only, depends on exactly one node, edges are recorded on
\* both sides, and every node is reached from every other.
PureCycle ==
    /\ _heap # {}
    /\ _blockeds = _heap
    /\ _pendings = {} /\ _waitings = {} /\ _planneds = {}
    /\ \A n \in _heap : Cardinality(_ins[n]) = 1
    /\ \A a, b \in _heap : (b \in _ins[a] <=> a \in _outs[b])
    /\ \A n \in _heap : ReachIns({n}) = _heap

\* Each element of the sequence c depends on the next one.
ConsecutiveEdges(c) ==
    \A i \in 1..Len(c) :
        /\ Found(c[i])
        /\ i < Len(c) => /\ Found(c[i + 1])
                         /\ NodeOf(c[i + 1]) \in _ins[NodeOf(c[i])]

C8_DeadlockSound ==
    cyclic =>
        /\ \A n \in ReachIns(_blockeds) : n \in _blockeds /\ _ins[n] # {}
        /\ op[1] = "cycle" =>
               (~ub /\ _cycle # <<>> /\ ConsecutiveEdges(_cycle))

\* C9. Suspend/resume round trip: halt(x) on a node with empty _ins takes
\* it out of Pending and puts it in Waiting; wake(x) on a node in Waiting
\* takes it out of Waiting and puts it in Pending if its _ins is empty at
\* that moment and in Blocked otherwise.
C9_HaltWake ==
    \A n \in Addr :
        (PrevFound(op[2]) /\ n = PrevNodeOf(op[2])) =>
            /\ (op[1] = "halt" /\ prev.ins[n] = {})
                  => (n \notin _pendings /\ n \in _waitings)
            /\ (op[1] = "wake" /\ n \in prev.waitings)
                  => /\ n \notin _waitings
                     /\ prev.ins[n] = {} => n \in _pendings
                     /\ prev.ins[n] # {} => n \in _blockeds

\* wake(x) directly after halt(x) took the dependency-free x out of Pending
C9_Witness ==
    \E n \in _heap :
        /\ op = Call("wake", _t[n], 0)
        /\ n \in prev.waitings
        /\ n \notin prev.pendings
        /\ prev.ins[n] = {}
        /\ n \in _pendings
        /\ n \notin _waitings

\* The last call named a value that had no node.
UnknownValue ==
    \/ /\ op[1] \in {"use", "erase", "release", "halt", "wake"}
       /\ ~PrevFound(op[2])
    \/ /\ op[1] \in {"attach", "detach"}
       /\ ~PrevFound(op[2]) \/ ~PrevFound(op[3])

\* C10. Unknown values are no-ops: use, erase, release, halt, wake with a
\* value that has no node, and attach / detach with an endpoint that has no
\* node, leave the store, the edge sets and the four sets unchanged.
C10_UnknownNoOp ==
    UnknownValue => Snapshot = prev

\* attach(a, b) with a ready node a and an unknown b
C10_Witness ==
    /\ op[1] = "attach"
    /\ PrevFound(op[2])
    /\ ~PrevFound(op[3])
    /\ PrevNodeOf(op[2]) \in prev.pendings
    /\ prev.ins[PrevNodeOf(op[2])] = {}
    /\ Snapshot = prev

\* C11. Duplicate registration is a no-op: push(x) or plan(x) for a value x
\* that already has a node leaves the store, the edge sets and the four
\* sets as they were (so plan(x) twice equals plan(x) once, and push(x) on
\* a Blocked, Waiting or Planned x adds nothing to Pending).
C11_DuplicateNoOp ==
    (op[1] \in {"push", "plan"} /\ PrevFound(op[2])) => Snapshot = prev

\* C12. top() / ctop() called while Pending is empty yields an explicit
\* empty result, not an undefined read, and leaves the members unchanged.
C12_TopOnEmpty ==
    (op[1] = "top" /\ prev.pendings = {}) =>
        (~ub /\ ret = NoValue /\ Snapshot = prev)

\* Node n is in the same of the four sets as when the last call was made.
SamePartition(n) ==
    /\ (n \in _pendings <=> n \in prev.pendings)
    /\ (n \in _blockeds <=> n \in prev.blockeds)
    /\ (n \in _waitings <=> n \in prev.waitings)
    /\ (n \in _planneds <=> n \in prev.planneds)

\* What release of node v may change: v's _outs, the _ins of the nodes that
\* were in v's _outs, and the Pending / Blocked membership of those nodes.
ReleaseFrame(v) ==
    /\ _heap = prev.heap /\ _t = prev.t
    /\ _waitings = prev.waitings /\ _planneds = prev.planneds
    /\ \A m \in Addr :
          /\ m # v => _outs[m] = prev.outs[m]
          /\ m \notin prev.outs[v] => (_ins[m] = prev.ins[m] /\ SamePartition(m))

\* C13 as stated. release(v) of any stored node v, one that depends on
\* itself included, leaves v's own partition membership and v's own _ins
\* unchanged, and changes only v's _outs, the _ins of v's former dependents
\* and the Pending / Blocked membership of those dependents.
C13_SeverFrameAny ==
    (op[1] = "release" /\ PrevFound(op[2])) =>
        LET v == PrevNodeOf(op[2])
        IN  /\ SamePartition(v)
            /\ _ins[v] = prev.ins[v]
            /\ ReleaseFrame(v)

\* C13 as amended. The same for every stored node v that is not in its own
\* _outs: a node that is its own dependent loses itself from its _ins and
\* may move from Blocked to Pending like any other dependent.
C13_SeverFrame ==
    (/\ op[1] = "release"
     /\ PrevFound(op[2])
     /\ PrevNodeOf(op[2]) \notin prev.outs[PrevNodeOf(op[2])]) =>
        LET v == PrevNodeOf(op[2])
        IN  /\ SamePartition(v)
            /\ _ins[v] = prev.ins[v]
            /\ _outs[v] = {}
            /\ ReleaseFrame(v)

\* release(v) of a Blocked v that unblocked a dependent
C13_Witness ==
    /\ op[1] = "release"
    /\ PrevFound(op[2])
    /\ LET v == PrevNodeOf(op[2])
       IN  /\ v \notin prev.outs[v]
           /\ prev.ins[v] # {}
           /\ v \in _blockeds
           /\ \E d \in prev.outs[v] : d \in prev.blockeds /\ d \in _pendings

\* C14. use(x) on a node in Planned takes it out of Planned and puts it in
\* Pending whatever its _ins is, and changes no edge set and no other
\* node's partition; on a node that is not in Planned it changes nothing.
C14_UseFrame ==
    (op[1] = "use" /\ PrevFound(op[2])) =>
        LET x == PrevNodeOf(op[2])
        IN  IF x \in prev.planneds
            THEN /\ _planneds = prev.planneds \ {x}
                 /\ _pendings = prev.pendings \cup {x}
                 /\ _blockeds = prev.blockeds
                 /\ _waitings = prev.waitings
                 /\ _ins = prev.ins /\ _outs = prev.outs
                 /\ _heap = prev.heap /\ _t = prev.t
            ELSE Snapshot = prev

\* use(x) of a Planned x that still has a dependency
C14_Witness ==
    /\ op[1] = "use"
    /\ PrevFound(op[2])
    /\ LET x == PrevNodeOf(op[2])
       IN  /\ x \in prev.planneds
           /\ x \notin prev.pendings
           /\ _ins[x] # {}
           /\ x \in _pendings
           /\ x \notin _planneds

\* Task v is in Pending: top() can return v, reading it through an element
\* of _pendings.
TaskInPending(v) == \E n \in _pendings : v \in ReadT(n)

\* C15. Dependency order is respected: in a run of push, attach and erase
\* where erase is only called on the task top() just returned and attach
\* only on tasks not yet completed, a task is in Pending only when every
\* task it was linked to as a dependency has been completed.
C15_DependencyOrder ==
    \A v, d \in Values :
        (TaskInPending(v) /\ <<v, d>> \in hist.linked)
            => hist.completed[d] > 0

\* The tasks reached from the tasks S along the links made, S included.
RECURSIVE ReachLinked(_)
ReachLinked(S) ==
    LET T == S \cup {l[2] : l \in {k \in hist.linked : k[1] \in S}}
    IN  IF T = S THEN S ELSE ReachLinked(T)

\* The links made contain no cycle.
AcyclicLinks ==
    \A l \in hist.linked : l[1] \notin ReachLinked({l[2]})

\* The loop while (!empty()) erase(top()); has run and ended.
LoopDone == hist.pc = "loop" /\ op[1] = "erase" /\ empty

\* C16. Progress on acyclic graphs: when tasks are registered with push and
\* linked with attach without a cycle, the loop while (!empty())
\* erase(top()); terminates with Pending and Blocked empty and every task
\* in Planned, each task completed exactly once (so every iteration
\* completes a task that was not completed before, at most one iteration
\* per task), and cyclic() is false at every step of the loop.
C16_LoopProgress ==
    AcyclicLinks =>
        /\ hist.pc = "loop" => ~cyclic
        /\ op[1] = "erase" =>
               (PrevFound(op[2]) /\ hist.completed[op[2]] = 1)
        /\ LoopDone =>
               /\ _pendings = {} /\ _blockeds = {}
               /\ \A n \in _heap :
                     n \in _planneds /\ hist.completed[_t[n]] = 1

\* C17. Blocked implies an unresolved dependency: when no value is
\* registered twice, every node in Blocked has a non-empty _ins, and no
\* node is in both Blocked and Waiting.
C17_BlockedHasDependency ==
    \A n \in _blockeds : _ins[n] # {} /\ n \notin _waitings

\* detach(a, b) took one of two dependencies from the Blocked node a
C17_Witness ==
    /\ op[1] = "detach"
    /\ PrevFound(op[2])
    /\ LET a == PrevNodeOf(op[2])
       IN  /\ a \in prev.blockeds
           /\ _ins[a] # {}
           /\ _ins[a] # prev.ins[a]
           /\ a \in _blockeds

\* C18. No node is ever lost: when no value is registered twice, every node
\* of the store is in at least one of Pending, Blocked, Waiting, Planned,
\* every member of those sets is a node of the store, and the store only
\* shrinks on clear().
C18_NoNodeLost ==
    /\ \A n \in _heap : Memberships(n) >= 1
    /\ (_pendings \cup _blockeds \cup _waitings \cup _planneds) \subseteq _heap
    /\ op[1] # "clear" => prev.heap \subseteq _heap

\* erase(x) recycled a Pending node: it is still stored, now in Planned
C18_Witness ==
    /\ op[1] = "erase"
    /\ PrevFound(op[2])
    /\ LET x == PrevNodeOf(op[2])
       IN  /\ x \in prev.pendings
           /\ x \in _heap
           /\ x \in _planneds
           /\ Memberships(x) = 1

\* The edge sets and the four partition sets of a snapshot
EdgesAndPartitions(S) ==
    <<S.ins, S.outs, S.pendings, S.blockeds, S.waitings, S.planneds>>

\* C19. Link/unlink round trip: for existing nodes a and b with b not in
\* a's incoming set, attach(a, b) followed immediately by detach(a, b)
\* restores all edge sets and the four partition sets to their values
\* before the attach; and detach(a, b) of an edge that does not exist
\* changes nothing.
C19_LinkUnlinkRoundTrip ==
    [][/\ (/\ op[1] = "attach"
            /\ PrevFound(op[2]) /\ PrevFound(op[3])
            /\ PrevNodeOf(op[3]) \notin prev.ins[PrevNodeOf(op[2])]
            /\ op'[1] = "detach" /\ op'[2] = op[2] /\ op'[3] = op[3])
               => EdgesAndPartitions(Snapshot)' = EdgesAndPartitions(prev)
       /\ (/\ op'[1] = "detach"
            /\ ~(/\ Found(op'[2]) /\ Found(op'[3])
                 /\ NodeOf(op'[3]) \in _ins[NodeOf(op'[2])]
                 /\ NodeOf(op'[2]) \in _outs[NodeOf(op'[3])]))
               => state' = state]_vars

====
